---- MODULE Spec2Model ----
(***************************************************************************)
(* Model of bin/express-cli.js: the project generator's pre-check, the     *)
(* overwrite confirmation, the app-name derivation, the manifest builder   *)
(* and the ordered filesystem pipeline of createApplication.               *)
(*                                                                         *)
(* Strings that the code inspects character by character (paths, input     *)
(* lines, dependency names) are sequences of one-character strings.        *)
(***************************************************************************)
EXTENDS Integers, Sequences, FiniteSets, TLC

VARIABLES
    arg,          \* program.args[0] as given on the command line (<<>>: none)
    cwd,          \* process.cwd(), a sequence of path segments
    flags,        \* program.pg / dev / test / git / force
    destState,    \* what fs.readdir finds at the destination
    tplListing,   \* directory listing of the bundled css and js/routes templates
    pc,           \* position of the run
    destinationPath,
    appName,
    renamed,      \* the app name derived again from appName
    prompted,     \* the confirm question has been written
    answer,       \* the line read from stdin
    okAnswer,     \* what confirm passed to its callback
    entered,      \* createApplication has been called
    nextOp,       \* index of the next operation of the pipeline
    issued,       \* filesystem calls made so far, in order, with their outcome
    disk,         \* paths this run has created under the destination
    pkg,          \* the manifest object of createApplication
    packageJson,  \* the text handed to write for package.json
    exitCode      \* process exit status (-1 while running)

vars == <<arg, cwd, flags, destState, tplListing, pc, destinationPath, appName,
          renamed, prompted, answer, okAnswer, entered, nextOp, issued, disk,
          pkg, packageJson, exitCode>>

----------------------------------------------------------------------------
(* Bounds *)

MaxPathLen == 4

----------------------------------------------------------------------------
(* Characters *)

Lowers == <<"a","b","c","d","e","f","g","h","i","j","k","l","m",
            "n","o","p","q","r","s","t","u","v","w","x","y","z">>
Uppers == <<"A","B","C","D","E","F","G","H","I","J","K","L","M",
            "N","O","P","Q","R","S","T","U","V","W","X","Y","Z">>
Digits == <<"0","1","2","3","4","5","6","7","8","9">>

Range(s) == {s[i] : i \in DOMAIN s}

IndexOf(s, c) == CHOOSE i \in DOMAIN s : s[i] = c

\* UTF-16 code unit of the characters that occur in dependency names
CharCode(c) ==
    IF c \in Range(Lowers) THEN 96 + IndexOf(Lowers, c)
    ELSE IF c \in Range(Uppers) THEN 64 + IndexOf(Uppers, c)
    ELSE IF c \in Range(Digits) THEN 47 + IndexOf(Digits, c)
    ELSE IF c = "-" THEN 45
    ELSE IF c = "." THEN 46
    ELSE IF c = "/" THEN 47
    ELSE IF c = "_" THEN 95
    ELSE 32

\* String.prototype.toLowerCase on one character
LowerChar(c) == IF c \in Range(Uppers) THEN Lowers[IndexOf(Uppers, c)] ELSE c

toLowerCase(s) == [i \in DOMAIN s |-> LowerChar(s[i])]

Str(s, n) == UNION {[1..k -> s] : k \in 0..n}

----------------------------------------------------------------------------
(* createAppName and the path functions it uses *)

\* the character class [A-Za-z0-9.-]
NameChar(c) == c \in Range(Lowers) \cup Range(Uppers) \cup Range(Digits) \cup {".", "-"}

RECURSIVE SplitSlash(_, _)
\* s.split("/"), cur being the segment under construction
SplitSlash(s, cur) ==
    IF s = <<>> THEN <<cur>>
    ELSE IF Head(s) = "/" THEN <<cur>> \o SplitSlash(Tail(s), <<>>)
    ELSE SplitSlash(Tail(s), Append(cur, Head(s)))

RECURSIVE NormalizeSegs(_, _)
\* path normalisation: drops "" and ".", lets ".." remove the segment before it
NormalizeSegs(segs, acc) ==
    IF segs = <<>> THEN acc
    ELSE LET h == Head(segs) IN
         IF h = <<>> \/ h = <<".">> THEN NormalizeSegs(Tail(segs), acc)
         ELSE IF h = <<".", ".">>
              THEN NormalizeSegs(Tail(segs),
                                 IF acc = <<>> THEN acc ELSE SubSeq(acc, 1, Len(acc) - 1))
              ELSE NormalizeSegs(Tail(segs), Append(acc, h))

\* path.resolve(p) on POSIX, as the segments of the absolute path
PathResolve(base, p) ==
    IF p # <<>> /\ Head(p) = "/"
    THEN NormalizeSegs(SplitSlash(p, <<>>), <<>>)
    ELSE NormalizeSegs(SplitSlash(p, <<>>), base)

\* path.basename of an absolute path given by its segments
Basename(segs) == IF segs = <<>> THEN <<>> ELSE segs[Len(segs)]

RECURSIVE ReplaceRuns(_, _)
\* .replace(/[^A-Za-z0-9.-]+/g, "-")
ReplaceRuns(s, inRun) ==
    IF s = <<>> THEN <<>>
    ELSE IF NameChar(Head(s)) THEN <<Head(s)>> \o ReplaceRuns(Tail(s), FALSE)
    ELSE (IF inRun THEN <<>> ELSE <<"-">>) \o ReplaceRuns(Tail(s), TRUE)

RECURSIVE DropLeading(_)
\* the ^[-_.]+ alternative
DropLeading(s) ==
    IF s # <<>> /\ Head(s) \in {"-", "_", "."} THEN DropLeading(Tail(s)) ELSE s

RECURSIVE DropTrailing(_)
\* the -+$ alternative
DropTrailing(s) ==
    IF s # <<>> /\ s[Len(s)] = "-" THEN DropTrailing(SubSeq(s, 1, Len(s) - 1)) ELSE s

\* .replace(/^[-_.]+|-+$/g, "")
StripEnds(s) == DropTrailing(DropLeading(s))

\* a slip in the second replace: the trailing run is left in place
createAppNameKeepsTrailing(segs) ==
    toLowerCase(DropLeading(ReplaceRuns(Basename(segs), FALSE)))

\* a slip in the order of the two replaces: strip first, then substitute
createAppNameStripFirst(segs) ==
    toLowerCase(ReplaceRuns(StripEnds(Basename(segs)), FALSE))

createAppName(segs) ==
    toLowerCase(StripEnds(ReplaceRuns(Basename(segs), FALSE)))

HelloWorld == <<"h","e","l","l","o","-","w","o","r","l","d">>

\* program.args.shift() || "."
DestinationOf(a) == IF a = <<>> THEN <<".">> ELSE a

\* createAppName(path.resolve(destinationPath)) || "hello-world"
AppNameOf(base, p) ==
    LET n == createAppName(PathResolve(base, p)) IN
    IF n = <<>> THEN HelloWorld ELSE n

----------------------------------------------------------------------------
(* confirm: the test applied to the line read from stdin *)

RECURSIVE StartsWith(_, _)
StartsWith(s, w) ==
    IF w = <<>> THEN TRUE
    ELSE IF s = <<>> THEN FALSE
    ELSE Head(s) = Head(w) /\ StartsWith(Tail(s), Tail(w))

RECURSIVE Contains(_, _)
Contains(s, w) ==
    IF StartsWith(s, w) THEN TRUE
    ELSE IF s = <<>> THEN FALSE
    ELSE Contains(Tail(s), w)

EndsWith(s, w) ==
    Len(s) >= Len(w) /\ SubSeq(s, Len(s) - Len(w) + 1, Len(s)) = w

WordY == <<"y">>
WordYes == <<"y","e","s">>
WordOk == <<"o","k">>
WordTrue == <<"t","r","u","e">>

\* /^y|yes|ok|true$/i.test(input): four alternatives, `^` binding to the
\* first only and `$` to the last only; the i flag folds case
confirmTest(input) ==
    LET l == toLowerCase(input) IN
    \/ StartsWith(l, WordY)
    \/ Contains(l, WordYes)
    \/ Contains(l, WordOk)
    \/ EndsWith(l, WordTrue)

----------------------------------------------------------------------------
(* The manifest: objects are sequences of key/value entries in property    *)
(* insertion order, which is the order JSON.stringify emits them in.       *)

Entry(k, v) == [key |-> k, value |-> v]

Keys(obj) == [i \in DOMAIN obj |-> obj[i].key]

HasKey(obj, k) == \E i \in DOMAIN obj : obj[i].key = k

Get(obj, k) == obj[CHOOSE i \in DOMAIN obj : obj[i].key = k].value

\* obj[k] = v
Put(obj, k, v) ==
    IF HasKey(obj, k)
    THEN [i \in DOMAIN obj |-> IF obj[i].key = k THEN Entry(k, v) ELSE obj[i]]
    ELSE Append(obj, Entry(k, v))

RECURSIVE CodeUnitLess(_, _)
\* a < b for strings: comparison by UTF-16 code units
CodeUnitLess(a, b) ==
    IF b = <<>> THEN FALSE
    ELSE IF a = <<>> THEN TRUE
    ELSE IF CharCode(Head(a)) < CharCode(Head(b)) THEN TRUE
    ELSE IF CharCode(Head(a)) > CharCode(Head(b)) THEN FALSE
    ELSE CodeUnitLess(Tail(a), Tail(b))

RECURSIVE InsertSorted(_, _)
InsertSorted(sorted, e) ==
    IF sorted = <<>> THEN <<e>>
    ELSE IF CodeUnitLess(e.key, Head(sorted).key) THEN <<e>> \o sorted
    ELSE <<Head(sorted)>> \o InsertSorted(Tail(sorted), e)

RECURSIVE SortEntries(_, _)
SortEntries(obj, acc) ==
    IF obj = <<>> THEN acc
    ELSE SortEntries(Tail(obj), InsertSorted(acc, Head(obj)))

\* a sort that is left out: the object keeps its insertion order
sortedObjectIdentity(obj) == obj

\* sortedObject(obj): a copy with the keys in Object.keys(obj).sort() order
sortedObject(obj) == SortEntries(obj, <<>>)

DepDebug == <<"d","e","b","u","g">>
DepExpress == <<"e","x","p","r","e","s","s">>
DepPg == <<"p","g">>
DepMorgan == <<"m","o","r","g","a","n">>
DepCors == <<"c","o","r","s">>
DepCookieParser == <<"c","o","o","k","i","e","-","p","a","r","s","e","r">>
DepDotenv == <<"d","o","t","e","n","v">>
DepNodemon == <<"n","o","d","e","m","o","n">>
DepJest == <<"j","e","s","t">>
DepSupertest == <<"s","u","p","e","r","t","e","s","t">>

CreateUsersDotenv == "node -r dotenv/config ./db/scripts/users/createTable.js"
CreateUsersPlain == "node ./db/scripts/users/createTable.js"

EmptyPkg ==
    [name |-> <<>>, version |-> "", private |-> FALSE, type |-> "",
     scripts |-> <<>>, dependencies |-> <<>>, devDependencies |-> <<>>]

\* var pkg = {...}
PkgInitial(name) ==
    [name |-> name, version |-> "0.0.0", private |-> TRUE, type |-> "module",
     scripts |-> <<Entry("start", "node ./bin/www.js")>>,
     dependencies |-> <<Entry(DepDebug, "~2.6.9"), Entry(DepExpress, "~4.16.1")>>,
     devDependencies |-> <<>>]

\* if (program.pg) {...}
PkgPg(p, f) ==
    IF ~f.pg THEN p
    ELSE LET p1 == [p EXCEPT !.dependencies = Put(@, DepPg, "^8.7.1")] IN
         IF f.dev
         THEN [p1 EXCEPT !.devDependencies = Put(@, DepDotenv, "^10.0.0"),
                         !.scripts = Put(@, "db:createusers", CreateUsersDotenv)]
         ELSE [p1 EXCEPT !.scripts = Put(@, "db:createusers", CreateUsersPlain)]

\* if (program.dev) {...}
PkgDev(p, f) ==
    IF ~f.dev THEN p
    ELSE [p EXCEPT
            !.devDependencies = Put(Put(@, DepDotenv, "^10.0.0"), DepNodemon, "^2.0.15"),
            !.scripts = Put(@, "dev", "nodemon -r dotenv/config ./bin/www.js")]

\* the request logger, cors and cookie parser, added whatever the flags
PkgMiddleware(p) ==
    [p EXCEPT !.dependencies =
        Put(Put(Put(@, DepMorgan, "~1.9.1"), DepCors, "^2.8.5"), DepCookieParser, "~1.4.4")]

\* the dotenv preload given to the variant without dev instead
PkgOnEntryPreloadSwapped(name, f) ==
    LET p0 == PkgMiddleware(PkgDev(PkgInitial(name), f)) IN
    IF ~f.pg THEN p0
    ELSE [p0 EXCEPT !.dependencies = Put(@, DepPg, "^8.7.1"),
                    !.scripts = Put(@, "db:createusers",
                                    IF f.dev THEN CreateUsersPlain ELSE CreateUsersDotenv)]

\* pkg as it stands when createApplication reaches its first filesystem call
PkgOnEntry(name, f) == PkgMiddleware(PkgDev(PkgPg(PkgInitial(name), f), f))

\* the amendments of the test branch
PkgTest(p) ==
    [p EXCEPT
        !.scripts = Put(@, "test", "node --experimental-vm-modules node_modules/jest/bin/jest.js"),
        !.devDependencies = Put(Put(@, DepJest, "^27.4.5"), DepSupertest, "^6.1.6")]

\* pkg.dependencies = sortedObject(pkg.dependencies)
PkgSort(p) == [p EXCEPT !.dependencies = sortedObject(@)]

NoText ==
    [name |-> <<>>, version |-> "", private |-> FALSE, type |-> "",
     objects |-> <<>>, eol |-> ""]

\* JSON.stringify(pkg, null, 2) + "\n": the members in property order (name,
\* version, private, type, then the three object members), each nested
\* object with its own members in property order
JSONstringify(p) ==
    [name |-> p.name, version |-> p.version, private |-> p.private,
     type |-> p.type,
     objects |-> <<Entry("scripts", p.scripts),
                   Entry("dependencies", p.dependencies),
                   Entry("devDependencies", p.devDependencies)>>,
     eol |-> "\n"]

\* the keys of an object member of the text, in the order they appear in it
MemberKeys(text, k) == Keys(Get(text.objects, k))

----------------------------------------------------------------------------
(* The filesystem pipeline of createApplication.  A path is the sequence   *)
(* of segments below the destination directory: path.join(dir, ...) with   *)
(* dir the destination the run was given.                                  *)

MODE_0666 == 438
MODE_0755 == 493

Mk(rel, aw) ==
    [call |-> "mkdir", path |-> rel, mode |-> MODE_0755, src |-> "", await |-> aw]

Wr(rel, src, mode) ==
    [call |-> "write", path |-> rel, mode |-> mode, src |-> src, await |-> FALSE]

Amend(what) ==
    [call |-> what, path |-> <<>>, mode |-> 0, src |-> "", await |-> FALSE]

\* write(to, readFileSync(TEMPLATE_DIR/from)): the mode defaults to 0666
copyTemplate(from, to) == Wr(to, from, MODE_0666)

\* the extension of the names a template directory may hold
ExtOf(name) ==
    CASE name \in {"style.css", ".draft.css"} -> "css"
      [] name \in {"index.js", "users.js"} -> "js"
      [] OTHER -> ""

IsDotFile(name) == name \in {".draft.css"}

\* minimatch.filter("*.<ext>", {matchBase: true}): `*` matches no leading dot
GlobMatch(name, ext) == ExtOf(name) = ext /\ ~IsDotFile(name)

\* readdirSync(fromDir).filter(glob).forEach(copyTemplate)
copyTemplateMulti(listing, fromDir, toDir, ext) ==
    LET names == SelectSeq(listing, LAMBDA n : GlobMatch(n, ext)) IN
    [i \in DOMAIN names |-> copyTemplate(fromDir, Append(toDir, names[i]))]

\* if (dir !== ".") mkdir(dir, ".")
RootDir(dir) == IF dir # <<".">> THEN <<Mk(<<>>, FALSE)>> ELSE <<>>

PublicDirs ==
    <<Mk(<<"public">>, FALSE), Mk(<<"public", "js">>, FALSE),
      Mk(<<"public", "images">>, FALSE), Mk(<<"public", "css">>, FALSE)>>

\* if (program.pg) {...}: the four mkdir calls are awaited
PgBlock(f) ==
    IF f.pg
    THEN <<Mk(<<"models">>, TRUE), Mk(<<"db">>, TRUE),
           Mk(<<"db", "scripts">>, TRUE), Mk(<<"db", "scripts", "users">>, TRUE),
           copyTemplate("models/users.js", <<"models", "users.js">>),
           copyTemplate("db/connection.js", <<"db", "connection.js">>),
           copyTemplate("db/scripts/users/createTable.js",
                        <<"db", "scripts", "users", "createTable.js">>)>>
    ELSE <<>>

\* if (program.test) {...}
TestBlock(f) ==
    IF f.test
    THEN <<copyTemplate("js/app.test.js", <<"app.test.js">>), Amend("pkg.test")>>
    ELSE <<>>

CssAndRoutes(listing) ==
    copyTemplateMulti(listing.css, "css", <<"public", "css">>, "css")
    \o <<Mk(<<"routes">>, FALSE)>>
    \o copyTemplateMulti(listing.routes, "js/routes", <<"routes">>, "js")
    \o <<copyTemplate("js/index.html", <<"public", "index.html">>)>>

GitAndDirname(f) ==
    (IF f.git THEN <<copyTemplate("js/gitignore", <<".gitignore">>)>> ELSE <<>>)
    \o <<copyTemplate("js/dirname.js", <<"dirname.js">>)>>

\* the bin directory made only after the launcher has been written into it
FinalWritesBinLate ==
    <<Amend("pkg.sort"),
      Wr(<<"app.js">>, "app.render()", MODE_0666),
      Wr(<<"package.json">>, "JSON.stringify(pkg)", MODE_0666),
      Wr(<<"bin", "www.js">>, "www.render()", MODE_0755),
      Mk(<<"bin">>, FALSE)>>

\* sort dependencies, then write app.js, package.json and bin/www.js
FinalWrites ==
    <<Amend("pkg.sort"),
      Wr(<<"app.js">>, "app.render()", MODE_0666),
      Wr(<<"package.json">>, "JSON.stringify(pkg)", MODE_0666),
      Mk(<<"bin">>, FALSE),
      Wr(<<"bin", "www.js">>, "www.render()", MODE_0755)>>

\* the statements of createApplication from its first filesystem call on
Statements(f, dir, listing) ==
    RootDir(dir) \o PublicDirs \o PgBlock(f) \o TestBlock(f)
    \o CssAndRoutes(listing) \o GitAndDirname(f) \o FinalWrites

IsFsCall(s) == s.call \in {"mkdir", "write"}

\* mkdirp creates the directory and every missing directory above it
Prefixes(rel) == {SubSeq(rel, 1, k) : k \in 0..Len(rel)}

\* one statement; `fails` says that the filesystem call throws
Step(st, s, fails) ==
    CASE s.call = "mkdir" ->
            [st EXCEPT !.issued = Append(@, [call |-> s.call, path |-> s.path,
                                             mode |-> s.mode, ok |-> ~fails]),
                       !.disk = IF fails THEN @ ELSE @ \cup Prefixes(s.path)]
      [] s.call = "write" ->
            [st EXCEPT !.issued = Append(@, [call |-> s.call, path |-> s.path,
                                             mode |-> s.mode, ok |-> ~fails]),
                       !.disk = IF fails THEN @ ELSE @ \cup {s.path},
                       !.packageJson = IF s.src = "JSON.stringify(pkg)"
                                       THEN JSONstringify(st.pkg) ELSE @]
      [] s.call = "pkg.test" -> [st EXCEPT !.pkg = PkgTest(@)]
      [] s.call = "pkg.sort" -> [st EXCEPT !.pkg = PkgSort(@)]

RECURSIVE Exec(_, _, _, _, _)
\* statements i..stop in order, the last of them throwing when `failed`
Exec(st, stmts, i, stop, failed) ==
    IF i > stop THEN st
    ELSE Exec(Step(st, stmts[i], failed /\ i = stop), stmts, i + 1, stop, failed)

\* where the run started at `from` next gives up control: at the first awaited
\* call, or at the end of the function
SegmentEnd(stmts, from) ==
    IF \E j \in from..Len(stmts) : stmts[j].await
    THEN CHOOSE j \in from..Len(stmts) :
            stmts[j].await /\ \A k \in from..(j - 1) : ~stmts[k].await
    ELSE Len(stmts)

----------------------------------------------------------------------------
(* Inputs *)

Flags == [pg : BOOLEAN, dev : BOOLEAN, test : BOOLEAN, git : BOOLEAN, force : BOOLEAN]

\* destinations given to a whole run: none, "my-app", "_"
MainArgs == {<<>>, <<"m","y","-","a","p","p">>, <<"_">>}

\* working directories: the root, /w and /A_
Cwds == {<<>>, << <<"w">> >>, << <<"A","_">> >>}

PathAlphabet == {"a", "B", "7", "-", "_", ".", "/", " "}

\* lines typed at the prompt in a whole run
AnswerLines ==
    {<<>>, <<"n">>, <<"n","o">>, <<"y">>, <<"Y","E","S">>, <<"o","k">>,
     <<"t","r","u","e">>, <<"n","o","t"," ","o","k">>, <<"u","n","t","r","u","e">>}

\* absent: ENOENT; unreadable: readdir fails with another error
DestStates == {"absent", "empty", "nonempty", "unreadable"}

TemplateListings ==
    {[css |-> <<"style.css">>, routes |-> <<"index.js", "users.js">>],
     [css |-> <<".draft.css", "style.css">>,
      routes |-> <<"README.md", "index.js", "users.js">>]}

\* what an unhandled promise rejection does to the process: end it with
\* status 1, or warn and let it end with status 0, depending on the runtime
RejectionExitCodes == {0, 1}

----------------------------------------------------------------------------
(* fs.readdir as seen by emptyDirectory *)

Readdir(d) ==
    CASE d = "absent" -> [err |-> "ENOENT", hasFiles |-> FALSE, nFiles |-> 0]
      [] d = "empty" -> [err |-> "", hasFiles |-> TRUE, nFiles |-> 0]
      [] d = "nonempty" -> [err |-> "", hasFiles |-> TRUE, nFiles |-> 1]
      [] d = "unreadable" -> [err |-> "EACCES", hasFiles |-> FALSE, nFiles |-> 0]

\* if (err && err.code !== "ENOENT") throw err
ReaddirThrows(r) == r.err # "" /\ r.err # "ENOENT"

\* !files || !files.length
IsEmpty(r) == ~r.hasFiles \/ r.nFiles = 0

----------------------------------------------------------------------------
(* The run *)

InitRest ==
    /\ destinationPath = <<>>
    /\ appName = <<>>
    /\ renamed = <<>>
    /\ prompted = FALSE
    /\ answer = <<>>
    /\ okAnswer = FALSE
    /\ entered = FALSE
    /\ nextOp = 1
    /\ issued = <<>>
    /\ disk = {}
    /\ pkg = EmptyPkg
    /\ packageJson = NoText
    /\ exitCode = -1

Init ==
    /\ arg \in MainArgs
    /\ cwd \in {<<>>, << <<"w">> >>}
    /\ flags \in Flags
    /\ destState \in DestStates
    /\ tplListing \in TemplateListings
    /\ pc = "main"
    /\ InitRest

\* main up to the call of emptyDirectory
Main ==
    /\ pc = "main"
    /\ destinationPath' = DestinationOf(arg)
    /\ appName' = AppNameOf(cwd, DestinationOf(arg))
    /\ pc' = "readdir"
    /\ UNCHANGED <<arg, cwd, flags, destState, tplListing, renamed, prompted,
                   answer, okAnswer, entered, nextOp, issued, disk, pkg,
                   packageJson, exitCode>>

\* createApplication run from statement `from` with manifest `p` until it
\* throws, awaits or returns
RunSegment(p, from) ==
    LET stmts == Statements(flags, destinationPath, tplListing)
        last == SegmentEnd(stmts, from)
    IN \E stop \in from..last, failed \in BOOLEAN :
          /\ failed => IsFsCall(stmts[stop])
          /\ ~failed => stop = last
          /\ LET st == Exec([pkg |-> p, packageJson |-> packageJson,
                             issued |-> issued, disk |-> disk],
                            stmts, from, stop, failed)
             IN /\ pkg' = st.pkg
                /\ packageJson' = st.packageJson
                /\ issued' = st.issued
                /\ disk' = st.disk
          /\ nextOp' = stop + 1
          /\ pc' = IF failed THEN "rejected"
                   ELSE IF stop = Len(stmts) THEN "resolved" ELSE "awaiting"

\* the call createApplication(appName, destinationPath)
CreateApplication ==
    /\ entered' = TRUE
    /\ RunSegment(PkgOnEntry(appName, flags), 1)

\* the callback main gives to emptyDirectory, run by fs.readdir
EmptyDirectoryCallback ==
    /\ pc = "readdir"
    /\ LET r == Readdir(destState) IN
       IF ReaddirThrows(r)
       THEN /\ pc' = "exited"
            /\ exitCode' = 1
            /\ UNCHANGED <<prompted, entered, nextOp, issued, disk, pkg, packageJson>>
       ELSE IF IsEmpty(r) \/ flags.force
       THEN /\ CreateApplication
            /\ UNCHANGED <<prompted, exitCode>>
       ELSE /\ prompted' = TRUE
            /\ pc' = "confirm"
            /\ UNCHANGED <<entered, nextOp, issued, disk, pkg, packageJson, exitCode>>
    /\ UNCHANGED <<arg, cwd, flags, destState, tplListing, destinationPath,
                   appName, renamed, answer, okAnswer>>

\* the callback of rl.question and, in it, the callback main gives to confirm
ConfirmCallback ==
    /\ pc = "confirm"
    /\ \E line \in AnswerLines :
          /\ answer' = line
          /\ okAnswer' = confirmTest(line)
          /\ IF confirmTest(line)
             THEN /\ CreateApplication
                  /\ UNCHANGED exitCode
             ELSE /\ pc' = "exited"
                  /\ exitCode' = 1
                  /\ UNCHANGED <<entered, nextOp, issued, disk, pkg, packageJson>>
    /\ UNCHANGED <<arg, cwd, flags, destState, tplListing, destinationPath,
                   appName, renamed, prompted>>

\* createApplication resumed after an awaited mkdir
Resume ==
    /\ pc = "awaiting"
    /\ RunSegment(pkg, nextOp)
    /\ UNCHANGED <<arg, cwd, flags, destState, tplListing, destinationPath,
                   appName, renamed, prompted, answer, okAnswer, entered, exitCode>>

\* createApplication returned: nothing is left to run and the process ends
ProcessEnds ==
    /\ pc = "resolved"
    /\ pc' = "exited"
    /\ exitCode' = 0
    /\ UNCHANGED <<arg, cwd, flags, destState, tplListing, destinationPath,
                   appName, renamed, prompted, answer, okAnswer, entered, nextOp,
                   issued, disk, pkg, packageJson>>

\* createApplication threw: its promise is rejected and main attached no
\* handler to it, so the runtime's treatment of unhandled rejections decides
UnhandledRejection ==
    /\ pc = "rejected"
    /\ pc' = "exited"
    /\ exitCode' \in RejectionExitCodes
    /\ UNCHANGED <<arg, cwd, flags, destState, tplListing, destinationPath,
                   appName, renamed, prompted, answer, okAnswer, entered, nextOp,
                   issued, disk, pkg, packageJson>>

Next ==
    \/ Main
    \/ EmptyDirectoryCallback
    \/ ConfirmCallback
    \/ Resume
    \/ ProcessEnds
    \/ UnhandledRejection

Spec == Init /\ [][Next]_vars

----------------------------------------------------------------------------
(* The app-name derivation on its own: every path up to MaxPathLen over    *)
(* PathAlphabet, from each working directory; the derived name is then     *)
(* given to the derivation again, as the destination of a second run.      *)

InitName ==
    /\ arg \in Str(PathAlphabet, MaxPathLen)
    /\ cwd \in Cwds
    /\ flags = [pg |-> FALSE, dev |-> FALSE, test |-> FALSE, git |-> FALSE, force |-> FALSE]
    /\ destState = "absent"
    /\ tplListing = [css |-> <<"style.css">>, routes |-> <<"index.js", "users.js">>]
    /\ pc = "main"
    /\ InitRest

Renormalize ==
    /\ pc = "readdir"
    /\ renamed' = AppNameOf(cwd, DestinationOf(appName))
    /\ pc' = "renamed"
    /\ UNCHANGED <<arg, cwd, flags, destState, tplListing, destinationPath,
                   appName, prompted, answer, okAnswer, entered, nextOp, issued,
                   disk, pkg, packageJson, exitCode>>

NextName ==
    \/ Main
    \/ Renormalize

SpecName == InitName /\ [][NextName]_vars

----------------------------------------------------------------------------
(* Properties *)

\* the answers the prompt protocol counts as affirmative: y, yes, ok, true,
\* in any case, and nothing else
AffirmativeWord(line) == toLowerCase(line) \in {WordY, WordYes, WordOk, WordTrue}

PreCheckResolved == pc \notin {"main", "readdir"}

Answered == prompted /\ pc # "confirm"

NoneOf(f) == ~f.pg /\ ~f.dev /\ ~f.test /\ ~f.git

IsSortedKeys(ks) == \A i \in 1..(Len(ks) - 1) : CodeUnitLess(ks[i], ks[i + 1])

Written == packageJson # NoText

Writes == SelectSeq(issued, LAMBDA o : o.call = "write")

Parent(rel) == SubSeq(rel, 1, Len(rel) - 1)

\* C1: a non-empty destination, no force flag and a negative answer end the
\* run with exit code 1, createApplication never entered and no mkdir or
\* write issued.
C1_DeclineMakesNoMutation ==
    (destState = "nonempty" /\ ~flags.force /\ Answered /\ ~AffirmativeWord(answer))
        => /\ ~entered
           /\ issued = <<>>
           /\ disk = {}
           /\ pc = "exited"
           /\ exitCode = 1

\* C1, with the verdict of confirm in place of the typed line: when confirm
\* reports a negative answer the run ends with exit code 1 and no call made.
C1_RefusedByConfirmMakesNoMutation ==
    (destState = "nonempty" /\ ~flags.force /\ Answered /\ ~okAnswer)
        => /\ ~entered
           /\ issued = <<>>
           /\ disk = {}
           /\ pc = "exited"
           /\ exitCode = 1

\* C2: in the package.json text the keys of dependencies are in alphabetical
\* order and so are the keys of devDependencies, whatever the flags.
C2_BothKeyListsSorted ==
    Written => /\ IsSortedKeys(MemberKeys(packageJson, "dependencies"))
               /\ IsSortedKeys(MemberKeys(packageJson, "devDependencies"))

\* C2, the half that the code keeps: the keys of dependencies are sorted.
C2_DependenciesSorted ==
    Written => IsSortedKeys(MemberKeys(packageJson, "dependencies"))

\* C3: confirm reports an affirmative answer exactly for the lines y, yes,
\* ok, true (in any case); every other line is negative and aborts the run.
C3_AffirmativeIffExactWord ==
    Answered =>
        /\ okAnswer <=> AffirmativeWord(answer)
        /\ ~AffirmativeWord(answer) => (pc = "exited" /\ exitCode = 1 /\ ~entered)

\* C4 as stated: with none of pg, dev, test, git (destination ".", empty
\* directory) the dependencies written are exactly debug and express.
C4_OnlyDebugAndExpress ==
    (Written /\ NoneOf(flags) /\ destinationPath = <<".">> /\ destState = "empty")
        => MemberKeys(packageJson, "dependencies") = <<DepDebug, DepExpress>>

\* C4 amended: with none of pg, dev, test, git (destination ".", empty
\* directory) the dependencies written are exactly cookie-parser, cors,
\* debug, express, morgan, in that (alphabetical) order, without pg, and
\* devDependencies is empty.
C4_DebugExpressAndMiddleware ==
    (Written /\ NoneOf(flags) /\ destinationPath = <<".">> /\ destState = "empty")
        => /\ MemberKeys(packageJson, "dependencies")
                = <<DepCookieParser, DepCors, DepDebug, DepExpress, DepMorgan>>
           /\ MemberKeys(packageJson, "devDependencies") = <<>>

C4_Witness ==
    /\ Written /\ NoneOf(flags) /\ destinationPath = <<".">> /\ destState = "empty"
    /\ pc = "resolved"

\* C5: scripts["db:createusers"] is in the manifest iff pg is set; it is the
\* dotenv-preloaded command exactly when pg and dev are set and the plain
\* one when pg is set without dev; with pg and dev, dependencies has pg and
\* devDependencies has dotenv and nodemon; with pg without dev,
\* devDependencies has no dotenv.
C5_CreateUsersScript ==
    Written =>
        LET scripts == Get(packageJson.objects, "scripts")
            deps == Range(MemberKeys(packageJson, "dependencies"))
            devDeps == Range(MemberKeys(packageJson, "devDependencies"))
        IN /\ HasKey(scripts, "db:createusers") <=> flags.pg
           /\ flags.pg =>
                /\ (Get(scripts, "db:createusers") = CreateUsersDotenv) <=> flags.dev
                /\ (Get(scripts, "db:createusers") = CreateUsersPlain) <=> ~flags.dev
           /\ (flags.pg /\ flags.dev) =>
                (DepPg \in deps /\ DepDotenv \in devDeps /\ DepNodemon \in devDeps)
           /\ (flags.pg /\ ~flags.dev) => DepDotenv \notin devDeps

C5_Witness ==
    /\ Written /\ flags.pg /\ flags.dev
    /\ Get(Get(packageJson.objects, "scripts"), "db:createusers") = CreateUsersDotenv
    /\ destinationPath = <<"m","y","-","a","p","p">>

\* C6: the prompt is issued iff the destination is non-empty and force is
\* not set; with force on a non-empty destination, or an empty or absent
\* destination, createApplication is entered without a prompt; and
\* createApplication is entered only once the pre-check has found the
\* destination empty, the force flag, or an affirmative answer.
C6_PromptIffNonEmptyUnforced ==
    /\ ~PreCheckResolved => (~prompted /\ ~entered)
    /\ PreCheckResolved => (prompted <=> (destState = "nonempty" /\ ~flags.force))
    /\ (PreCheckResolved /\ (destState \in {"empty", "absent"}
                             \/ (destState = "nonempty" /\ flags.force)))
          => (entered /\ ~prompted)
    /\ entered => \/ destState \in {"empty", "absent"}
                  \/ flags.force
                  \/ (Answered /\ AffirmativeWord(answer))

\* C6, with the verdict of confirm in place of the typed line.
C6_PromptIffNonEmptyUnforcedByConfirm ==
    /\ ~PreCheckResolved => (~prompted /\ ~entered)
    /\ PreCheckResolved => (prompted <=> (destState = "nonempty" /\ ~flags.force))
    /\ (PreCheckResolved /\ (destState \in {"empty", "absent"}
                             \/ (destState = "nonempty" /\ flags.force)))
          => (entered /\ ~prompted)
    /\ entered => \/ destState \in {"empty", "absent"}
                  \/ flags.force
                  \/ (Answered /\ okAnswer)

\* C7: the derivation applied to its own output gives the same name.
C7_Idempotent == pc = "renamed" => renamed = appName

C7_Witness ==
    /\ pc = "renamed"
    /\ arg = <<".", "B", "_">>
    /\ appName = <<"b">>
    /\ renamed = <<"b">>

\* C8: the app name is non-empty, made of [a-z0-9.-] only, starts with none
\* of - _ . and does not end with -; it is hello-world when the normalized
\* base name is empty.
C8_NameIsPackageSafe ==
    pc # "main" =>
        /\ appName # <<>>
        /\ \A i \in DOMAIN appName :
              appName[i] \in Range(Lowers) \cup Range(Digits) \cup {".", "-"}
        /\ appName[1] \notin {"-", "_", "."}
        /\ appName[Len(appName)] # "-"
        /\ (\A c \in Range(Basename(PathResolve(cwd, destinationPath))) :
               c \in {"-", "_", ".", " "}) => appName = HelloWorld

C8_Witness ==
    /\ pc # "main"
    /\ arg = <<"_", "B", " ">>
    /\ appName = <<"b">>

C8_WitnessDefault ==
    /\ pc # "main"
    /\ arg = <<"a", "/", "_">>
    /\ appName = HelloWorld

\* C9: a failed mkdir or write is the last filesystem call of the run
\* (nothing later, no retry), what was created before it stays, and the
\* process exits with a non-zero code.
C9_FailureIsFatal ==
    \A i \in DOMAIN issued :
        ~issued[i].ok =>
            /\ i = Len(issued)
            /\ pc \in {"rejected", "exited"}
            /\ \A j \in 1..(i - 1) : issued[j].ok /\ issued[j].path \in disk
            /\ pc = "exited" => exitCode # 0

\* C9 without the exit code: a failed call is the last one and nothing
\* created before it is removed.
C9_FailureStopsThePipeline ==
    \A i \in DOMAIN issued :
        ~issued[i].ok =>
            /\ i = Len(issued)
            /\ pc \in {"rejected", "exited"}
            /\ \A j \in 1..(i - 1) : issued[j].ok /\ issued[j].path \in disk

\* C10: every write comes after the mkdir of the file's parent directory
\* (the destination itself unless it is "."); bin/www.js is the only file
\* written with mode 0755; a run that returns ends with the writes app.js,
\* package.json, bin/www.js in that order, the package.json text being the
\* manifest with every flag's amendment in it.
C10_MkdirBeforeWriteAndFinalOrder ==
    /\ \A i \in DOMAIN issued :
          issued[i].call = "write" =>
              /\ \/ (Parent(issued[i].path) = <<>> /\ destinationPath = <<".">>)
                 \/ \E j \in 1..(i - 1) :
                       /\ issued[j].call = "mkdir"
                       /\ issued[j].ok
                       /\ issued[j].path = Parent(issued[i].path)
              /\ (issued[i].mode = MODE_0755) <=> (issued[i].path = <<"bin", "www.js">>)
    /\ pc = "resolved" =>
          LET n == Len(Writes) IN
          /\ n >= 3
          /\ Writes[n - 2].path = <<"app.js">>
          /\ Writes[n - 1].path = <<"package.json">>
          /\ Writes[n].path = <<"bin", "www.js">>
          /\ packageJson = JSONstringify(pkg)
          /\ flags.pg => DepPg \in Range(MemberKeys(packageJson, "dependencies"))
          /\ flags.dev => DepNodemon \in Range(MemberKeys(packageJson, "devDependencies"))
          /\ flags.test => DepJest \in Range(MemberKeys(packageJson, "devDependencies"))

C10_Witness ==
    /\ pc = "resolved"
    /\ flags.pg /\ flags.dev /\ flags.test /\ flags.git
    /\ destinationPath # <<".">>
    /\ Len(Writes) >= 3
    /\ Writes[Len(Writes)].path = <<"bin", "www.js">>
    /\ Writes[Len(Writes)].mode = MODE_0755

====
